---- MODULE Spec2Model ----
(***************************************************************************)
(* Long-form question answering with citations and assertion-driven        *)
(* retries (examples/longformqa/longformqa_assertions.ipynb).              *)
(*                                                                         *)
(* Strings are modelled as sequences of tokens.  A passage is the token    *)
(* sequence "title | body"; a paragraph is a sequence of text tokens and   *)
(* citation markers "[n].".                                                *)
(***************************************************************************)
EXTENDS Integers, Sequences, FiniteSets, TLC

\* ------------------------------------------------------------------ bounds
MaxParLen == 3          \* longest generated paragraph, in tokens
DevsetSize == 2         \* number of examples evaluate iterates over

\* ------------------------------------------------------- program constants
max_hops == 2
passages_per_hop == 3
MaxBacktracks == 2

\* ------------------------------------------------------------ the retriever
Sep == " | "

P1 == <<"A", Sep, "a">>
P2 == <<"B", Sep, "b">>
P3 == <<"C", Sep, "c">>
P4 == <<"A", Sep, "d">>

\* retrieve(query).passages: k passages, ranked
RetrievalResults ==
    { r \in { <<P1, P2, P3>>, <<P2, P4, P1>> } : Len(r) = passages_per_hop }

\* --------------------------------------------------------- generated text
TextTokens == {"s"}
Markers == {"[0].", "[1].", "[4]."}
Tokens == TextTokens \cup Markers

\* int(m.group(1)) of a token matching \[(\d+)\]\.
CiteNum(tok) ==
    CASE tok = "[0]." -> 0
      [] tok = "[1]." -> 1
      [] tok = "[4]." -> 4

SeqsUpTo(S, n) == UNION { [1..k -> S] : k \in 0..n }

Paragraphs == SeqsUpTo(Tokens, MaxParLen)

\* ------------------------------------------------------------- str helpers
RECURSIVE SplitAcc(_, _, _)
SplitAcc(s, done, cur) ==
    IF s = <<>> THEN Append(done, cur)
    ELSE IF Head(s) = Sep THEN SplitAcc(Tail(s), Append(done, cur), <<>>)
    ELSE SplitAcc(Tail(s), done, Append(cur, Head(s)))

\* s.split(' | ')
Split(s) == SplitAcc(s, <<>>, <<>>)

\* str.lower() on the answers of the entailment model
Lower(s) ==
    CASE s = "True" -> "true"
      [] s = "False" -> "false"
      [] OTHER -> s

Range(s) == { s[i] : i \in DOMAIN s }

RECURSIVE SumSeq(_)
SumSeq(s) == IF s = <<>> THEN 0 ELSE Head(s) + SumSeq(Tail(s))

\* --------------------------------------------------------------- dsp.utils
RECURSIVE DedupAcc(_, _)
DedupAcc(seq, out) ==
    IF seq = <<>> THEN out
    ELSE IF Head(seq) \in Range(out) THEN DedupAcc(Tail(seq), out)
    ELSE DedupAcc(Tail(seq), Append(out, Head(seq)))

deduplicate_first(seq) ==
    IF seq = <<>> THEN <<>>
    ELSE <<Head(seq)>> \o SelectSeq(Tail(seq), LAMBDA x : x # Head(seq))

deduplicate(seq) == DedupAcc(seq, <<>>)

\* ------------------------------------------------------------------ utils
\* findall(r'(.*?)(\[\d+\]\.)'): one (part, citation) per marker, the part
\* being the text since the previous marker; text after the last marker is
\* dropped.  The key of a citation [n] is n - 1, the index of its passage.
RECURSIVE PartsAcc(_, _, _)
PartsAcc(par, cur, out) ==
    IF par = <<>> THEN out
    ELSE IF Head(par) \in Markers
         THEN PartsAcc(Tail(par), <<>>,
                       Append(out, [num |-> CiteNum(Head(par)) - 1, text |-> cur]))
         ELSE PartsAcc(Tail(par), Append(cur, Head(par)), out)

parts_with_citation(paragraph) == PartsAcc(paragraph, <<>>, <<>>)

\* citation_dict.setdefault(key, []).append(part) on an insertion-ordered dict
SetDefaultAppend(d, key, part) ==
    IF \E i \in DOMAIN d : d[i].num = key
    THEN [i \in DOMAIN d |->
            IF d[i].num = key
            THEN [num |-> key, texts |-> Append(d[i].texts, part)]
            ELSE d[i]]
    ELSE Append(d, [num |-> key, texts |-> <<part>>])

RECURSIVE DictAcc(_, _)
DictAcc(parts, d) ==
    IF parts = <<>> THEN d
    ELSE DictAcc(Tail(parts), SetDefaultAppend(d, Head(parts).num, Head(parts).text))

extract_text_by_citation(paragraph) == DictAcc(parts_with_citation(paragraph), <<>>)

has_citations(paragraph) == \E i \in DOMAIN paragraph : paragraph[i] \in Markers

\* every group of one or two sentences is followed by a citation: no text
\* is left after the last marker and no marker is preceded by more than two
\* sentences (a text token stands for one sentence)
correct_citation_format(paragraph) ==
    /\ paragraph # <<>> => paragraph[Len(paragraph)] \in Markers
    /\ \A p \in Range(parts_with_citation(paragraph)) : Len(p.text) <= 2

citations_check(paragraph) ==
    has_citations(paragraph) /\ correct_citation_format(paragraph)

\* ------------------------------------------------ citation_faithfulness
\* what one call of check_citation_faithfulness can do: answer, or fail on
\* malformed output
Replies == {"True", "False", "ValueError"}

\* {str(i): context[i].split(' | ')[1] for i in range(len(context))}
context_dict_shifted(context) ==
    [i \in 1..Len(context) |-> Split(context[i])[2]]

context_dict(context) ==
    [i \in 0..(Len(context) - 1) |-> Split(context[i + 1])[2]]

\* result.faithfulness.lower() == 'true'
is_faithful(reply) == Lower(reply) = "true"

\* the (citation_num, text) pairs the two nested loops visit, in order,
\* without the citations that are not keys of context_dict
RECURSIVE TextsOf(_, _)
TextsOf(num, texts) ==
    IF texts = <<>> THEN <<>>
    ELSE <<[num |-> num, text |-> Head(texts)]>> \o TextsOf(num, Tail(texts))

RECURSIVE Visits(_, _)
Visits(citation_dict, cdict) ==
    IF citation_dict = <<>> THEN <<>>
    ELSE LET e == Head(citation_dict)
         IN (IF e.num \notin DOMAIN cdict THEN <<>> ELSE TextsOf(e.num, e.texts))
            \o Visits(Tail(citation_dict), cdict)

NoState == [results |-> <<>>, unfaithful |-> <<>>, calls |-> <<>>]

\* one pass of the try/except of the inner loop
check_one_drop(st, paragraph, v, current_context, reply) ==
    LET call == [context |-> current_context, text |-> v.text, reply |-> reply]
    IN IF reply = "ValueError"
       THEN [results |-> st.results, unfaithful |-> st.unfaithful,
             calls |-> Append(st.calls, call)]
       ELSE [results |-> Append(st.results, is_faithful(reply)),
             unfaithful |->
                 IF is_faithful(reply) THEN st.unfaithful
                 ELSE Append(st.unfaithful,
                     [paragraph |-> paragraph, text |-> v.text,
                      context |-> current_context]),
             calls |-> Append(st.calls, call)]

check_one(st, paragraph, v, current_context, reply) ==
    LET call == [context |-> current_context, text |-> v.text, reply |-> reply]
    IN IF reply = "ValueError"
       THEN [results |-> Append(st.results, FALSE),
             unfaithful |-> Append(st.unfaithful,
                 [paragraph |-> paragraph, text |-> v.text, error |-> "malformed"]),
             calls |-> Append(st.calls, call)]
       ELSE [results |-> Append(st.results, is_faithful(reply)),
             unfaithful |->
                 IF is_faithful(reply) THEN st.unfaithful
                 ELSE Append(st.unfaithful,
                     [paragraph |-> paragraph, text |-> v.text,
                      context |-> current_context]),
             calls |-> Append(st.calls, call)]

RECURSIVE CheckLoop(_, _, _, _, _)
CheckLoop(visits, k, st, paragraph, env) ==
    IF k > Len(visits) THEN st
    ELSE CheckLoop(visits, k + 1,
                   check_one(st, paragraph, visits[k],
                             env.cdict[visits[k].num], env.entail[k]),
                   paragraph, env)

All(results) == \A i \in DOMAIN results : results[i]

\* the value citation_faithfulness returns: (faithful, outputs), outputs
\* being None when isNone; calls is the log of the entailment calls made
citation_faithfulness_nonone(pred, entail) ==
    LET citation_dict == extract_text_by_citation(pred.paragraph)
        cdict == context_dict(pred.context)
        st == CheckLoop(Visits(citation_dict, cdict), 1, NoState, pred.paragraph,
                        [cdict |-> cdict, entail |-> entail])
    IN [faithful |-> All(st.results), isNone |-> FALSE,
        outputs |-> st.unfaithful, calls |-> st.calls]

citation_faithfulness(pred, entail) ==
    LET citation_dict == extract_text_by_citation(pred.paragraph)
    IN IF citation_dict = <<>>
       THEN [faithful |-> FALSE, isNone |-> TRUE, outputs |-> <<>>, calls |-> <<>>]
       ELSE LET cdict == context_dict(pred.context)
                st == CheckLoop(Visits(citation_dict, cdict), 1, NoState,
                                pred.paragraph, [cdict |-> cdict, entail |-> entail])
            IN IF st.results = <<>>
               THEN [faithful |-> FALSE, isNone |-> TRUE, outputs |-> <<>>,
                     calls |-> st.calls]
               ELSE [faithful |-> All(st.results), isNone |-> FALSE,
                     outputs |-> st.unfaithful, calls |-> st.calls]

\* the answers the entailment model may give to the calls of one check
NumMarkers(paragraph) == Cardinality({ i \in DOMAIN paragraph : paragraph[i] \in Markers })
Entailments(paragraph) == [1..NumMarkers(paragraph) -> Replies]

\* ---------------------------------------------------- extrinsic metrics
\* seq[i] of Python, negative indices counting from the end
PyIndex(seq, i) == IF i >= 0 THEN seq[i + 1] ELSE seq[Len(seq) + i + 1]

RECURSIVE cited_numbers(_)
cited_numbers(paragraph) ==
    IF paragraph = <<>> THEN <<>>
    ELSE (IF Head(paragraph) \in Markers THEN <<CiteNum(Head(paragraph))>> ELSE <<>>)
         \o cited_numbers(Tail(paragraph))

RECURSIVE kept_indices(_, _)
kept_indices(indices, context) ==
    IF indices = <<>> THEN <<>>
    ELSE (IF Head(indices) <= Len(context) THEN <<Head(indices) - 1>> ELSE <<>>)
         \o kept_indices(Tail(indices), context)

extract_cited_titles_from_paragraph(paragraph, context) ==
    LET cited_indices == kept_indices(cited_numbers(paragraph), context)
    IN [k \in DOMAIN cited_indices |-> Split(PyIndex(context, cited_indices[k]))[1]]

\* a quotient a / b of Python is kept as <<a, b>>; the literal 0 is <<0, 1>>
calculate_recall_list(example, pred) ==
    LET gold_titles == Range(example.gold_titles)
        cited == extract_cited_titles_from_paragraph(pred.paragraph, pred.context)
    IN IF gold_titles # {}
       THEN <<Len(SelectSeq(cited, LAMBDA t : t \in gold_titles)),
              Cardinality(gold_titles)>>
       ELSE <<0, 1>>

calculate_recall(example, pred) ==
    LET gold_titles == Range(example.gold_titles)
        found_cited_titles ==
            Range(extract_cited_titles_from_paragraph(pred.paragraph, pred.context))
        intersection == gold_titles \cap found_cited_titles
    IN IF gold_titles # {}
       THEN <<Cardinality(intersection), Cardinality(gold_titles)>>
       ELSE <<0, 1>>

calculate_precision(example, pred) ==
    LET gold_titles == Range(example.gold_titles)
        found_cited_titles ==
            Range(extract_cited_titles_from_paragraph(pred.paragraph, pred.context))
        intersection == gold_titles \cap found_cited_titles
    IN IF found_cited_titles # {}
       THEN <<Cardinality(intersection), Cardinality(found_cited_titles)>>
       ELSE <<0, 1>>

\* normalize_text(answer) in normalize_text(pred.paragraph): 1 if the gold answer occurs in the normalised paragraph, else 0
answer_correctness(example, pred) ==
    IF \E i \in DOMAIN pred.paragraph : pred.paragraph[i] = example.answer
    THEN 1 ELSE 0

\* ------------------------------------------------------------ the pipeline
\* context = deduplicate(context + passages)
hop_step_prepend(context, passages) == deduplicate(passages \o context)

hop_step(context, passages) == deduplicate(context \o passages)

RECURSIVE ContextsAfter(_)
ContextsAfter(h) ==
    IF h = 0 THEN {<<>>}
    ELSE { hop_step(c, r) : c \in ContextsAfter(h - 1), r \in RetrievalResults }

Modules == {"LongFormQA", "LongFormQAWithAssertions"}

NoPred == [context |-> <<>>, paragraph |-> <<>>]
NoFeedback == [check |-> "none", context |-> <<>>]
NoFaith == [faithful |-> FALSE, isNone |-> TRUE, outputs |-> <<>>, calls |-> <<>>]
NoCheck == [citations_ok |-> TRUE, faith_called |-> FALSE, faithful |-> TRUE,
            malformed |-> FALSE, first_unfaithful |-> <<>>]

\* what the two validators say of a prediction, for the record
Checked(pred, entail, bypass) ==
    LET ok == citations_check(pred.paragraph)
        cf == citation_faithfulness(pred, entail)
        withContext == SelectSeq(cf.outputs, LAMBDA o : "context" \in DOMAIN o)
    IN IF ~(ok \/ bypass)
       THEN [citations_ok |-> FALSE, faith_called |-> FALSE, faithful |-> TRUE,
             malformed |-> FALSE, first_unfaithful |-> <<>>]
       ELSE [citations_ok |-> ok, faith_called |-> TRUE, faithful |-> cf.faithful,
             malformed |-> \E i \in DOMAIN cf.calls : cf.calls[i].reply = "ValueError",
             first_unfaithful |->
                 IF withContext = <<>> THEN <<>> ELSE withContext[1].context]
NoResult == [kind |-> "none", pred |-> NoPred]

\* "Make sure every 1-2 sentences has citations. ..."
CitationsMsg == [check |-> "citations", context |-> <<>>]
\* f"Make sure your output is based on the following context: '{context}'."
FaithMsg(ctx) == [check |-> "faithfulness", context |-> ctx]


\* the message of the dspy.Suggest of line 481 that raises: the loop of line
\* 480 is in its first pass, context is bound to the context of the first pair
suggest_message_last(unfaithful_pairs) ==
    FaithMsg(unfaithful_pairs[Len(unfaithful_pairs)][2])

suggest_message(unfaithful_pairs) == FaithMsg(unfaithful_pairs[1][2])

\* return pred: the prediction built on line 475, whatever context names now
returned_pred_rebuilt(pred, context) ==
    [context |-> <<context>>, paragraph |-> pred.paragraph]

returned_pred(pred, context) == pred

\* lines 476-484 of forward, run on the prediction of line 475.  bypass is
\* TRUE when a failing dspy.Suggest only logs.  The value tells how this
\* run of forward ends and what its local name context is bound to then.
forward_tail(pred, context, entail, bypass) ==
    IF ~citations_check(pred.paragraph) /\ ~bypass
    THEN [kind |-> "suggest", msg |-> CitationsMsg, pred |-> pred, context |-> context]
    ELSE LET cf == citation_faithfulness(pred, entail)
             unfaithful_outputs == cf.outputs
         IN IF ~cf.isNone /\ unfaithful_outputs # <<>>
            THEN IF \E i \in DOMAIN unfaithful_outputs :
                        "context" \notin DOMAIN unfaithful_outputs[i]
                 THEN [kind |-> "KeyError", msg |-> NoFeedback, pred |-> pred,
                       context |-> context]
                 ELSE LET unfaithful_pairs ==
                              [i \in DOMAIN unfaithful_outputs |->
                                  <<unfaithful_outputs[i].text,
                                    unfaithful_outputs[i].context>>]
                      IN IF ~bypass
                         THEN [kind |-> "suggest",
                               msg |-> suggest_message(unfaithful_pairs),
                               pred |-> pred, context |-> unfaithful_pairs[1][2]]
                         ELSE LET last == unfaithful_pairs[Len(unfaithful_pairs)][2]
                              IN [kind |-> "return", msg |-> NoFeedback,
                                  pred |-> returned_pred(pred, last),
                                  context |-> last]
            ELSE [kind |-> "return", msg |-> NoFeedback,
                  pred |-> returned_pred(pred, context), context |-> context]

\* ------------------------------------------------------------------ state
VARIABLES
    module,      \* which program forward belongs to
    pc,          \* where the call of the module is
    hop,         \* the loop variable of the hop loop
    context,     \* forward's local name context
    retrieved,   \* the context the handler keeps for the retries
    pred,        \* forward's local name pred
    attempt,     \* how many times the handler has backtracked
    feedback,    \* the feedback the next invocation of the generator gets
    genLog,      \* inputs of every invocation of generate_cited_paragraph
    lastCheck,   \* what the validators say of the last validated paragraph
    result,      \* what the call returned or raised
    m_pc, m_example, m_pred, m_faith, m_titles, m_recall, m_precision,
    e_pc, e_i, correctness_values, recall_values, precision_values,
    citation_faithfulness_values, failed, averages

fwdVars == <<module, pc, hop, context, retrieved, pred, attempt, feedback, genLog,
             lastCheck, result>>
metricVars == <<m_pc, m_example, m_pred, m_faith, m_titles, m_recall,
                m_precision>>
evalVars == <<e_pc, e_i, correctness_values, recall_values, precision_values,
              citation_faithfulness_values, failed, averages>>
vars == <<fwdVars, metricVars, evalVars>>

FwdIdle ==
    /\ module = "LongFormQA" /\ pc = "idle" /\ hop = 0 /\ context = <<>>
    /\ retrieved = <<>> /\ pred = NoPred /\ attempt = 0 /\ feedback = NoFeedback
    /\ genLog = <<>> /\ lastCheck = NoCheck /\ result = NoResult

MetricIdle ==
    /\ m_pc = "idle" /\ m_example = [answer |-> "s", gold_titles |-> <<>>]
    /\ m_pred = NoPred /\ m_faith = NoFaith /\ m_titles = <<>>
    /\ m_recall = <<0, 1>> /\ m_precision = <<0, 1>>

EvalIdle ==
    /\ e_pc = "idle" /\ e_i = 0 /\ correctness_values = <<>> /\ recall_values = <<>>
    /\ precision_values = <<>> /\ citation_faithfulness_values = <<>>
    /\ failed = <<>> /\ averages = <<>>

\* ------------------------------------------- one call of the module (Spec)
Init ==
    /\ module \in Modules
    /\ pc = "hops" /\ hop = 0 /\ context = <<>> /\ retrieved = <<>>
    /\ pred = NoPred /\ attempt = 0 /\ feedback = NoFeedback /\ genLog = <<>>
    /\ lastCheck = NoCheck /\ result = NoResult
    /\ MetricIdle /\ EvalIdle

\* one pass of the hop loop: the query is generated, passages are retrieved
Hop ==
    /\ pc = "hops" /\ hop < max_hops
    /\ \E passages \in RetrievalResults :
          /\ context' = hop_step(context, passages)
          /\ retrieved' = hop_step(context, passages)
    /\ hop' = hop + 1
    /\ pc' = IF hop + 1 = max_hops THEN "generate" ELSE "hops"
    /\ UNCHANGED <<module, pred, attempt, feedback, genLog, lastCheck, result>>
    /\ UNCHANGED <<metricVars, evalVars>>

\* lines 474-475 (238-240 of LongFormQA, which returns here)
Generate ==
    /\ pc = "generate"
    /\ \E paragraph \in Paragraphs :
          /\ pred' = [context |-> context, paragraph |-> paragraph]
          /\ result' = IF module = "LongFormQA"
                       THEN [kind |-> "return",
                             pred |-> [context |-> context, paragraph |-> paragraph]]
                       ELSE result
    /\ genLog' = Append(genLog, [context |-> context, feedback |-> feedback])
    /\ pc' = IF module = "LongFormQA" THEN "returned" ELSE "validate"
    /\ UNCHANGED <<module, hop, context, retrieved, attempt, feedback, lastCheck>>
    /\ UNCHANGED <<metricVars, evalVars>>

\* lines 476-484 under the backtracking handler: a failing suggestion sends
\* the call back to the generator with the message as feedback and the
\* retrieved context kept, until MaxBacktracks retries are used up; the last
\* attempt runs with the suggestions bypassed
Validate ==
    /\ pc = "validate"
    /\ \E entail \in Entailments(pred.paragraph) :
          LET bypass == attempt = MaxBacktracks
              out == forward_tail(pred, context, entail, bypass)
          IN /\ lastCheck' = Checked(pred, entail, bypass)
             /\ \/ /\ out.kind = "suggest"
                   /\ attempt' = attempt + 1
                   /\ feedback' = out.msg
                   /\ context' = retrieved
                   /\ pred' = NoPred
                   /\ pc' = "generate"
                   /\ UNCHANGED result
                \/ /\ out.kind = "return"
                   /\ result' = [kind |-> "return", pred |-> out.pred]
                   /\ context' = out.context
                   /\ pc' = "returned"
                   /\ UNCHANGED <<attempt, feedback, pred>>
                \/ /\ out.kind = "KeyError"
                   /\ result' = [kind |-> "KeyError", pred |-> NoPred]
                   /\ context' = out.context
                   /\ pc' = "raised"
                   /\ UNCHANGED <<attempt, feedback, pred>>
    /\ UNCHANGED <<module, hop, retrieved, genLog>>
    /\ UNCHANGED <<metricVars, evalVars>>

Next == Hop \/ Generate \/ Validate

Spec == Init /\ [][Next]_vars

\* --------------------------------- the metrics as functions (SpecMetrics)
TitleA == Split(P1)[1]
TitleB == Split(P2)[1]
TitleC == Split(P3)[1]

GoldTitleLists == { <<>>, <<TitleA>>, <<TitleA, TitleB>>, <<TitleC, <<"Z">> >> }

InitMetrics ==
    /\ FwdIdle /\ EvalIdle
    /\ m_pc = "input"
    /\ m_pred \in [context : ContextsAfter(max_hops), paragraph : Paragraphs]
    /\ m_example \in [answer : {"s"}, gold_titles : GoldTitleLists]
    /\ m_faith = NoFaith /\ m_titles = <<>>
    /\ m_recall = <<0, 1>> /\ m_precision = <<0, 1>>

ApplyFaithfulness ==
    /\ m_pc = "input"
    /\ \E entail \in Entailments(m_pred.paragraph) :
          m_faith' = citation_faithfulness(m_pred, entail)
    /\ m_pc' = "faithfulness"
    /\ UNCHANGED <<m_example, m_pred, m_titles, m_recall, m_precision>>
    /\ UNCHANGED <<fwdVars, evalVars>>

ApplyTitles ==
    /\ m_pc = "faithfulness"
    /\ m_titles' = extract_cited_titles_from_paragraph(m_pred.paragraph, m_pred.context)
    /\ m_pc' = "titles"
    /\ UNCHANGED <<m_example, m_pred, m_faith, m_recall, m_precision>>
    /\ UNCHANGED <<fwdVars, evalVars>>

ApplyRecall ==
    /\ m_pc = "titles"
    /\ m_recall' = calculate_recall(m_example, m_pred)
    /\ m_pc' = "recall"
    /\ UNCHANGED <<m_example, m_pred, m_faith, m_titles, m_precision>>
    /\ UNCHANGED <<fwdVars, evalVars>>

ApplyPrecision ==
    /\ m_pc = "recall"
    /\ m_precision' = calculate_precision(m_example, m_pred)
    /\ m_pc' = "precision"
    /\ UNCHANGED <<m_example, m_pred, m_faith, m_titles, m_recall>>
    /\ UNCHANGED <<fwdVars, evalVars>>

NextMetrics == ApplyFaithfulness \/ ApplyTitles \/ ApplyRecall \/ ApplyPrecision

SpecMetrics == InitMetrics /\ [][NextMetrics]_vars

\* ------------------------------------------------- evaluate (SpecEval)
\* devset[i - 1]
Example(i) ==
    IF i % 2 = 1
    THEN [answer |-> "s", gold_titles |-> <<TitleA, TitleB>>]
    ELSE [answer |-> "z", gold_titles |-> <<TitleC>>]

\* the predictions module(question=...) may return
EvalPreds ==
    [context : ContextsAfter(max_hops),
     paragraph : { <<>>, <<"s", "[1].">>, <<"[1].", "s", "[4].">>, <<"s", "[0].">> }]

\* rationals <<a, b>> with b > 0
RatAdd(x, y) == <<x[1] * y[2] + y[1] * x[2], x[2] * y[2]>>
RatEq(x, y) == x[1] * y[2] = y[1] * x[2]

RECURSIVE RatSum(_)
RatSum(s) == IF s = <<>> THEN <<0, 1>> ELSE RatAdd(Head(s), RatSum(Tail(s)))

\* an int and a bool as rationals (True counts 1 in sum())
IntRat(v) == <<v, 1>>
BoolRat(v) == IF v THEN <<1, 1>> ELSE <<0, 1>>

\* sum(values) / len(devset) if values else 0
average(values, n) ==
    IF values # <<>>
    THEN LET t == RatSum(values) IN <<t[1], t[2] * n>>
    ELSE <<0, 1>>

InitEval ==
    /\ FwdIdle /\ MetricIdle
    /\ e_pc = "loop" /\ e_i = 0
    /\ correctness_values = <<>> /\ recall_values = <<>>
    /\ precision_values = <<>> /\ citation_faithfulness_values = <<>>
    /\ failed = <<>> /\ averages = <<>>

\* the module raises: nothing is appended, the error is printed
EvalModuleRaises ==
    /\ e_pc = "loop" /\ e_i < DevsetSize
    /\ failed' = Append(failed, [example |-> e_i + 1, error |-> "module"])
    /\ e_i' = e_i + 1
    /\ UNCHANGED <<e_pc, correctness_values, recall_values, precision_values,
                   citation_faithfulness_values, averages>>
    /\ UNCHANGED <<fwdVars, metricVars>>

\* an entailment call of line 370 raises something else than ValueError
EvalFaithfulnessRaises ==
    /\ e_pc = "loop" /\ e_i < DevsetSize
    /\ \E p \in EvalPreds :
          /\ extract_text_by_citation(p.paragraph) # <<>>
          /\ correctness_values' =
                Append(correctness_values, IntRat(answer_correctness(Example(e_i + 1), p)))
    /\ failed' = Append(failed, [example |-> e_i + 1, error |-> "entailment"])
    /\ e_i' = e_i + 1
    /\ UNCHANGED <<e_pc, recall_values, precision_values,
                   citation_faithfulness_values, averages>>
    /\ UNCHANGED <<fwdVars, metricVars>>

\* the body of the try runs to its end
EvalScores ==
    /\ e_pc = "loop" /\ e_i < DevsetSize
    /\ \E p \in EvalPreds : \E entail \in Entailments(p.paragraph) :
          LET example == Example(e_i + 1) IN
          /\ correctness_values' =
                Append(correctness_values, IntRat(answer_correctness(example, p)))
          /\ citation_faithfulness_values' =
                Append(citation_faithfulness_values,
                       BoolRat(citation_faithfulness(p, entail).faithful))
          /\ recall_values' = Append(recall_values, calculate_recall(example, p))
          /\ precision_values' = Append(precision_values, calculate_precision(example, p))
    /\ e_i' = e_i + 1
    /\ UNCHANGED <<e_pc, failed, averages>>
    /\ UNCHANGED <<fwdVars, metricVars>>

\* lines 379-387
EvalPrint ==
    /\ e_pc = "loop" /\ e_i = DevsetSize
    /\ averages' = <<[correctness |-> average(correctness_values, DevsetSize),
                      recall |-> average(recall_values, DevsetSize),
                      precision |-> average(precision_values, DevsetSize),
                      citation_faithfulness |->
                          average(citation_faithfulness_values, DevsetSize)]>>
    /\ e_pc' = "printed"
    /\ UNCHANGED <<e_i, correctness_values, recall_values, precision_values,
                   citation_faithfulness_values, failed>>
    /\ UNCHANGED <<fwdVars, metricVars>>

NextEval == EvalModuleRaises \/ EvalFaithfulnessRaises \/ EvalScores \/ EvalPrint

SpecEval == InitEval /\ [][NextEval]_vars

\* ===================================================================
\* Properties
\* ===================================================================
Wrapped == module = "LongFormQAWithAssertions"
Ended == pc \in {"returned", "raised"}
LastAttemptFailed == ~lastCheck.citations_ok \/ ~lastCheck.faithful

MarkerPos(par) == { i \in DOMAIN par : par[i] \in Markers }

\* the text between the marker at position i and the marker before it
SpanBefore(par, i) ==
    LET before == { j \in MarkerPos(par) : j < i }
        prev == IF before = {} THEN 0
                ELSE CHOOSE j \in before : \A l \in before : l <= j
    IN SubSeq(par, prev + 1, i - 1)

\* the markers [n]. whose n is a 1-based index into the context
InRange(par, ctx) ==
    { i \in MarkerPos(par) : 1 <= CiteNum(par[i]) /\ CiteNum(par[i]) <= Len(ctx) }

\* C1: every call of the wrapped module ends after at most MaxBacktracks
\* retries of the generator, and a call whose attempts all failed validation
\* returns the last generated prediction unchanged and raises nothing.
C1_BoundedRetriesThenReturn ==
    Wrapped =>
        /\ attempt <= MaxBacktracks
        /\ Len(genLog) <= MaxBacktracks + 1
        /\ (Ended /\ LastAttemptFailed) =>
              /\ pc = "returned"
              /\ result.kind = "return"
              /\ result.pred = pred

\* C2: across the retries of one question the retrieved context is kept:
\* every invocation of the generator receives the context of the first one,
\* and the returned prediction carries that context.
C2_ContextPreserved ==
    Wrapped =>
        /\ \A k \in DOMAIN genLog : genLog[k].context = genLog[1].context
        /\ (pc = "returned" =>
              /\ result.pred.context = genLog[1].context
              /\ result.pred.context = retrieved)

\* a call that returned on its last attempt after the loop over the
\* unfaithful pairs had rebound the name context
C2_Witness ==
    /\ Wrapped /\ pc = "returned" /\ attempt = MaxBacktracks
    /\ lastCheck.first_unfaithful # <<>>
    /\ context = lastCheck.first_unfaithful
    /\ Len(genLog) = MaxBacktracks + 1

\* the message the validators' verdict calls for
ExpectedMsg(chk) ==
    IF ~chk.citations_ok THEN CitationsMsg ELSE FaithMsg(chk.first_unfaithful)

\* C3: the first invocation of the generator gets no feedback; a later one
\* gets feedback only as a retry after an output that failed a validator,
\* and the feedback is the message of the suggestion that failed.
C3_FeedbackOnlyOnRetry ==
    Wrapped =>
        /\ (attempt = 0 => feedback = NoFeedback)
        /\ (genLog # <<>> => genLog[1].feedback = NoFeedback)
        /\ \A k \in DOMAIN genLog : k > 1 => genLog[k].feedback # NoFeedback
        /\ (attempt >= 1 /\ pc \in {"generate", "validate"}) =>
              /\ LastAttemptFailed
              /\ feedback = ExpectedMsg(lastCheck)
              /\ (pc = "validate" => genLog[Len(genLog)].feedback = feedback)

\* a second retry that carries the message of a failed faithfulness check
C3_Witness ==
    /\ Wrapped /\ pc = "validate" /\ attempt = 2
    /\ genLog[3].feedback.check = "faithfulness"
    /\ genLog[2].feedback.check = "citations"

\* C4: every entailment call is for a span cited as [n] with n a 1-based
\* index into the context and is made against the body of the n-th passage,
\* every such span gets a call, and the title reported for that [n] is the
\* title of the same passage.
C4_FaithfulnessChecksCitedPassage ==
    m_pc # "input" =>
        LET par == m_pred.paragraph
            ctx == m_pred.context
            Matches(c, i) ==
                /\ c.text = SpanBefore(par, i)
                /\ c.context = Split(ctx[CiteNum(par[i])])[2]
            Rank(i) == Cardinality({ j \in MarkerPos(par) :
                                       j <= i /\ CiteNum(par[j]) <= Len(ctx) })
        IN /\ \A k \in DOMAIN m_faith.calls :
                 \E i \in InRange(par, ctx) : Matches(m_faith.calls[k], i)
           /\ \A i \in InRange(par, ctx) :
                 \E k \in DOMAIN m_faith.calls : Matches(m_faith.calls[k], i)
           /\ m_pc \in {"titles", "recall", "precision"} =>
                 \A i \in InRange(par, ctx) :
                     m_titles[Rank(i)] = Split(ctx[CiteNum(par[i])])[1]

\* two spans citing different passages, one of them the fourth
C4_Witness ==
    /\ m_pc = "titles"
    /\ Len(m_faith.calls) >= 2
    /\ \E k \in DOMAIN m_faith.calls : m_faith.calls[k].context = Split(P4)[2]
    /\ Len(m_titles) >= 2

RECURSIVE ExpectedTitles(_, _)
ExpectedTitles(par, ctx) ==
    IF par = <<>> THEN <<>>
    ELSE (IF /\ Head(par) \in Markers
             /\ 1 <= CiteNum(Head(par))
             /\ CiteNum(Head(par)) <= Len(ctx)
          THEN <<Split(ctx[CiteNum(Head(par))])[1]>>
          ELSE <<>>)
         \o ExpectedTitles(Tail(par), ctx)

\* C5: the titles returned are, in order of occurrence, the titles of
\* context[n-1] for the markers [n]. with 1 <= n <= len(context); a marker
\* outside that range contributes no title.
C5_TitlesOfInRangeCitations ==
    m_pc \in {"titles", "recall", "precision"} =>
        m_titles = ExpectedTitles(m_pred.paragraph, m_pred.context)

\* the examples processed without exception, and their correctness values
Processed == { i \in 1..DevsetSize : \A k \in DOMAIN failed : failed[k].example # i }
RanModule ==
    { i \in 1..DevsetSize :
        \A k \in DOMAIN failed : ~(failed[k].example = i /\ failed[k].error = "module") }

RECURSIVE ProcessedCorrectness(_, _)
ProcessedCorrectness(i, k) ==
    IF i > DevsetSize THEN <<>>
    ELSE IF i \notin RanModule THEN ProcessedCorrectness(i + 1, k)
    ELSE (IF i \in Processed THEN <<correctness_values[k]>> ELSE <<>>)
         \o ProcessedCorrectness(i + 1, k + 1)

MeanOf(values) ==
    LET t == RatSum(values) IN <<t[1], t[2] * Len(values)>>

\* C6: an example that raises is logged, the loop goes on, and each printed
\* average is the sum of the metric over the examples processed without
\* exception divided by the number of those examples.
C6_AveragesOverProcessed ==
    /\ Len(failed) <= e_i
    /\ (e_pc = "printed" /\ Processed # {}) =>
          /\ e_i = DevsetSize
          /\ Len(recall_values) = Cardinality(Processed)
          /\ RatEq(averages[1].correctness, MeanOf(ProcessedCorrectness(1, 1)))
          /\ RatEq(averages[1].recall, MeanOf(recall_values))
          /\ RatEq(averages[1].precision, MeanOf(precision_values))
          /\ RatEq(averages[1].citation_faithfulness,
                   MeanOf(citation_faithfulness_values))

\* C7: an entailment call that fails on malformed output during forward
\* makes the span unfaithful; forward then ends in a retry suggestion or a
\* returned prediction and no exception escapes.
C7_MalformedNeverRaised ==
    (Wrapped /\ lastCheck.malformed) =>
        /\ ~lastCheck.faithful
        /\ pc \in {"generate", "validate", "returned"}
        /\ result.kind # "KeyError"

JudgedFaithful(call) == call.reply # "ValueError" /\ Lower(call.reply) = "true"

\* C8: when a span is checked, the overall result is the AND of the
\* per-span results, the list holds exactly the spans judged not faithful,
\* each with its source passage, the result is true iff the list is empty,
\* and one entailment call is made per extracted span.
C8_AndOfChecksAndUnfaithfulList ==
    (m_pc # "input" /\ m_faith.calls # <<>>) =>
        LET calls == m_faith.calls
            bad == SelectSeq(calls, LAMBDA c : ~JudgedFaithful(c))
            outs == m_faith.outputs
        IN /\ ~m_faith.isNone
           /\ m_faith.faithful = (\A k \in DOMAIN calls : JudgedFaithful(calls[k]))
           /\ Len(outs) = Len(bad)
           /\ \A j \in DOMAIN outs :
                 /\ outs[j].text = bad[j].text
                 /\ "context" \in DOMAIN outs[j]
                 /\ outs[j].context = bad[j].context
           /\ m_faith.faithful = (outs = <<>>)
           /\ Len(calls) = NumMarkers(m_pred.paragraph)

\* C9: an entailment call that fails with ValueError counts its span as not
\* faithful; the other spans are still checked and the function returns
\* false with the failed span in the list.
C9_ValueErrorIsLocal ==
    (m_pc # "input" /\ \E k \in DOMAIN m_faith.calls :
                          m_faith.calls[k].reply = "ValueError") =>
        /\ ~m_faith.faithful
        /\ ~m_faith.isNone
        /\ Len(m_faith.calls) = Cardinality(InRange(m_pred.paragraph, m_pred.context))
        /\ \A k \in DOMAIN m_faith.calls :
              m_faith.calls[k].reply = "ValueError" =>
                  \E j \in DOMAIN m_faith.outputs :
                      /\ m_faith.outputs[j].text = m_faith.calls[k].text
                      /\ "error" \in DOMAIN m_faith.outputs[j]

\* the first of two calls failed and the second was still made
C9_Witness ==
    /\ m_pc = "faithfulness"
    /\ Len(m_faith.calls) >= 2
    /\ m_faith.calls[1].reply = "ValueError"
    /\ m_faith.calls[2].reply = "True"
    /\ Len(m_faith.outputs) = 1

\* C10: a paragraph without citation makes citation_faithfulness return
\* (False, None) without any entailment call.
C10_NoCitationsNoData ==
    (m_pc # "input" /\ MarkerPos(m_pred.paragraph) = {}) =>
        /\ ~m_faith.faithful
        /\ m_faith.isNone
        /\ m_faith.outputs = <<>>
        /\ m_faith.calls = <<>>

\* a paragraph of text only has been checked
C10_Witness ==
    /\ m_pc = "faithfulness"
    /\ m_pred.paragraph # <<>>
    /\ MarkerPos(m_pred.paragraph) = {}
    /\ m_faith.isNone

\* a quotient <<a, b>> that lies in [0, 1] and divides by no zero
InUnitInterval(q) == q[2] > 0 /\ 0 <= q[1] /\ q[1] <= q[2]

\* C11: calculate_recall and calculate_precision return a value in [0, 1]
\* without dividing by zero; recall is 0 when there is no gold title and
\* precision is 0 when no title is cited.
C11_RecallPrecisionInUnitInterval ==
    /\ m_pc \in {"recall", "precision"} =>
          /\ InUnitInterval(m_recall)
          /\ (m_example.gold_titles = <<>> => m_recall[1] = 0)
    /\ m_pc = "precision" =>
          /\ InUnitInterval(m_precision)
          /\ (m_titles = <<>> => m_precision[1] = 0)

\* one of two gold titles is cited twice, by [1]. and by [4]. of a context
\* whose first and fourth passage carry the same title
C11_Witness ==
    /\ m_pc = "precision"
    /\ m_recall = <<1, 2>>
    /\ m_precision = <<1, 1>>
    /\ Len(m_titles) >= 2

\* C12: when citations_check returns false for the generated paragraph, no
\* exception escapes the wrapped forward; while a retry is left the first
\* dspy.Suggest sends the call back to the generator with the fixed
\* instruction string, whatever the paragraph and the context are.
C12_CitationsFailureRetriesNeverRaises ==
    (Wrapped /\ ~lastCheck.citations_ok) =>
        /\ result.kind # "KeyError"
        /\ pc # "raised"
        /\ ~lastCheck.faith_called =>
              /\ pc \in {"generate", "validate"}
              /\ attempt >= 1
              /\ feedback = CitationsMsg

NoDuplicates(s) == \A i, j \in DOMAIN s : s[i] = s[j] => i = j

\* C13: deduplication of the context is idempotent: in every hop, with c the
\* old context followed by the retrieved passages, the new context
\* deduplicate(c) is left unchanged by a second deduplicate, holds the same
\* set of passages as c and holds no passage twice.
C13_DeduplicateIdempotent ==
    [][hop' = hop + 1 =>
          \E passages \in RetrievalResults :
              LET c == context \o passages
              IN /\ context' = deduplicate(c)
                 /\ deduplicate(context') = context'
                 /\ deduplicate(deduplicate(c)) = deduplicate(c)
                 /\ Range(context') = Range(c)
                 /\ NoDuplicates(context')]_vars

\* six passages were retrieved in two hops and two of them were dropped
C13_Witness ==
    /\ pc = "generate" /\ hop = max_hops /\ attempt = 0
    /\ Len(context) = 4
    /\ NoDuplicates(context)

IsPrefix(s, t) == Len(s) <= Len(t) /\ SubSeq(t, 1, Len(s)) = s

\* the hop loop is still running, or has run max_hops times; the generator
\* has been invoked only after that; what was retrieved holds no passage twice
HopsBeforeGenerate ==
    /\ hop \in 0..max_hops
    /\ pc = "hops" <=> hop < max_hops
    /\ (genLog # <<>> \/ result.kind # "none") => hop = max_hops
    /\ NoDuplicates(retrieved)

\* a hop is taken inside the loop, before any generation, and leaves a
\* duplicate-free context of which the previous context is a prefix
HopExtends ==
    /\ hop' \in {hop, hop + 1}
    /\ hop' = hop + 1 =>
          /\ pc = "hops" /\ hop < max_hops /\ genLog = <<>>
          /\ IsPrefix(context, context')
          /\ NoDuplicates(context')
          /\ retrieved' = context'
    /\ hop' = hop => retrieved' = retrieved

\* C14: in forward of both modules the hop loop runs exactly max_hops times;
\* after every hop the context is an ordered sequence with no two equal
\* passages of which the context of the previous hop is a prefix, so a
\* passage keeps its position once retrieved; the paragraph is generated
\* only after the last hop.
C14_HopsExtendContext == []HopsBeforeGenerate /\ [][HopExtends]_vars

\* LongFormQA returned a paragraph over the three passages of the first hop
\* followed by the one new passage of the second
C14_Witness ==
    /\ module = "LongFormQA" /\ pc = "returned" /\ hop = max_hops
    /\ Len(genLog) = 1
    /\ result.pred.context = retrieved
    /\ SubSeq(retrieved, 1, passages_per_hop) \in RetrievalResults
    /\ Len(retrieved) = passages_per_hop + 1

\* the call went back to the generator with the message of line 481
FaithfulnessRetryPending ==
    pc \in {"generate", "validate"} /\ attempt >= 1 /\ feedback.check = "faithfulness"

\* C15: in forward of LongFormQAWithAssertions, whenever citation_faithfulness
\* reports an overall false on an attempt whose suggestions are in force
\* (including when no citation is found) and no exception is raised, a
\* faithfulness retry suggestion is issued; the prediction is returned by
\* such an attempt only when the overall result is true.
C15_UnfaithfulAlwaysSuggests ==
    (Wrapped /\ lastCheck.faith_called /\ pc # "raised") =>
        /\ (pc = "returned" /\ attempt < MaxBacktracks) => lastCheck.faithful
        /\ ~lastCheck.faithful => (FaithfulnessRetryPending \/ attempt = MaxBacktracks)

\* C16: in evaluate, after any run, including runs in which some examples
\* raise at any point of their processing, the four value lists hold the
\* same number of entries: an example adds to all four or to none.
C16_ValueListsSameLength ==
    /\ Len(correctness_values) = Len(citation_faithfulness_values)
    /\ Len(citation_faithfulness_values) = Len(recall_values)
    /\ Len(recall_values) = Len(precision_values)
    /\ Len(precision_values) + Len(failed) = e_i

====
